---- MODULE Spec2Model ----
(***************************************************************************)
(* The rail_score compatibility shim (src/rail_score/__init__.py) as a     *)
(* state machine: the module body is executed statement by statement by    *)
(* the interpreter's import machinery, against a successor distribution    *)
(* (rail_score_sdk) whose presence and public surface vary, and a warnings *)
(* filter whose disposition of DeprecationWarning varies.                  *)
(***************************************************************************)
EXTENDS Naturals, Sequences, FiniteSets, TLC

\* Import statements of the shim executed by the host program in one process.
MaxImports == 3

SHIM == "rail_score"
SDK == "rail_score_sdk"

(***************************************************************************)
(* Objects. Identity is equality of the record: two names reference the    *)
(* identical object iff they are bound to equal records.                   *)
(***************************************************************************)
Obj(owner, name) == [owner |-> owner, name |-> name, val |-> <<>>]
ListObj(owner, name, items) == [owner |-> owner, name |-> name, val |-> items]

EmptyNs == [n \in {} |-> Obj("", "")]

Bind(space, name, object) ==
    [n \in DOMAIN space \cup {name} |-> IF n = name THEN object ELSE space[n]]

Overlay(space, from, names) ==
    [n \in DOMAIN space \cup names |-> IF n \in names THEN from[n] ELSE space[n]]

(***************************************************************************)
(* The text of the notice and of the module docstring: a sequence of       *)
(* lines, each line the sequence of its whitespace-separated words. The    *)
(* two pictographs of the notice are written by their code points, the     *)
(* docstring's literal-quote marks are dropped and its rule is one word.    *)
(***************************************************************************)
\* the notice with the install command left out
NoticeTextNoInstall ==
    << <<>>,
       <<>>,
       <<"U+26A0", "The", "'rail-score'", "package", "is", "DEPRECATED", "and",
         "will", "not", "receive", "updates.">>,
       <<"U+27A1", "Please", "switch", "to", "'rail-score-sdk':">>,
       <<>>,
       <<"pip", "uninstall", "rail-score">>,
       <<>>,
       <<"Then", "update", "your", "imports:">>,
       <<"from", "rail_score_sdk", "import", "RailScoreClient">>,
       <<>>,
       <<"Docs:", "https://pypi.org/project/rail-score-sdk/">> >>

NoticeText ==
    << <<>>,
       <<>>,
       <<"U+26A0", "The", "'rail-score'", "package", "is", "DEPRECATED", "and",
         "will", "not", "receive", "updates.">>,
       <<"U+27A1", "Please", "switch", "to", "'rail-score-sdk':">>,
       <<>>,
       <<"pip", "uninstall", "rail-score">>,
       <<"pip", "install", "rail-score-sdk">>,
       <<>>,
       <<"Then", "update", "your", "imports:">>,
       <<"from", "rail_score_sdk", "import", "RailScoreClient">>,
       <<>>,
       <<"Docs:", "https://pypi.org/project/rail-score-sdk/">> >>

DocString ==
    << <<>>,
       <<"RAIL", "Score", "-", "DEPRECATED.", "Use", "rail-score-sdk", "instead.">>,
       <<"(rule)">>,
       <<>>,
       <<"This", "package", "has", "been", "renamed", "to", "rail-score-sdk.">>,
       <<"All", "future", "development", "happens", "there.">>,
       <<>>,
       <<"Migration:">>,
       <<"pip", "uninstall", "rail-score">>,
       <<"pip", "install", "rail-score-sdk">>,
       <<>>,
       <<"Then", "update", "your", "imports:">>,
       <<"#", "Old">>,
       <<"from", "rail_score", "import", "RailScore">>,
       <<"#", "New">>,
       <<"from", "rail_score_sdk", "import", "RailScoreClient">>,
       <<>>,
       <<"For", "full", "documentation,", "see:">>,
       <<"https://github.com/RAILethicsHub/rail-score/tree/main/python">>,
       <<"https://pypi.org/project/rail-score-sdk/">> >>

NoticeCategory == "DeprecationWarning"

\* words occurs in line as a run of consecutive words
OccursIn(words, line) ==
    \E k \in 0..Len(line) :
        /\ k + Len(words) <= Len(line)
        /\ \A j \in 1..Len(words) : line[k + j] = words[j]

\* text contains the piece verbatim on one of its lines
Contains(text, words) == \E i \in 1..Len(text) : OccursIn(words, text[i])

(***************************************************************************)
(* The successor distribution as installed: absent, failing while it       *)
(* loads, or loading into a namespace with some attributes and possibly    *)
(* its own __all__.                                                        *)
(***************************************************************************)
\* attributes a successor may have beside the client type and the version:
\* a public function, a private helper, a name the shim binds itself
\* (RailScore) and a name the shim's body uses (warnings)
ExtraSets ==
    { {},
      {"evaluate", "_helper"},
      {"RailScore", "warnings"},
      {"RailScore", "evaluate", "_helper", "warnings"} }

\* the __all__ a successor may declare
AllLists ==
    { <<"evaluate", "_helper">>,
      <<"RailScore", "RailScoreClient", "__all__">> }

NoSurface ==
    [client |-> FALSE, version |-> FALSE, extras |-> {}, hasAll |-> FALSE, all |-> <<>>]

Surfaces ==
    { s \in [client : BOOLEAN, version : BOOLEAN, extras : ExtraSets,
             hasAll : BOOLEAN, all : AllLists \cup {<<>>}] :
        s.hasAll <=> s.all # <<>> }

Installations ==
    { [status |-> "absent", surface |-> NoSurface],
      [status |-> "broken", surface |-> NoSurface] }
    \cup { [status |-> "ok", surface |-> s] : s \in Surfaces }

SurfaceNames(s) ==
    s.extras
    \cup (IF s.client THEN {"RailScoreClient"} ELSE {})
    \cup (IF s.version THEN {"__version__"} ELSE {})
    \cup (IF s.hasAll THEN {"__all__"} ELSE {})
    \cup {"__name__"}

\* the namespace of the successor module once it has loaded
SurfaceNs(s) ==
    [n \in SurfaceNames(s) |->
        IF n = "__all__" THEN ListObj(SDK, "__all__", s.all) ELSE Obj(SDK, n)]

Filters == {"error", "ignore", "always", "default"}
Sites == {"app.py:1"}


(***************************************************************************)
(* State.                                                                  *)
(***************************************************************************)
VARIABLES
    sdkDisk,       \* the successor distribution as installed
    sysModules,    \* names in the interpreter's module cache
    sdkNs,         \* namespace of the loaded successor module
    ns,            \* namespace of the shim module
    pc,            \* statement of the body about to run, 0 when none is running
    importer,      \* call site of the import statement being served
    filterAction,  \* what the warnings filter does with a DeprecationWarning
    registry,      \* call sites whose warning registry holds the notice
    channel,       \* notices delivered to the diagnostic channel
    issued,        \* calls of warnings.warn
    runs,          \* executions of the module body started
    log,           \* side effects of the latest execution of the body, in order
    history        \* outcome of every import statement, in order

vars ==
    << sdkDisk, sysModules, sdkNs, ns, pc, importer, filterAction,
       registry, channel, issued, runs, log, history >>

(***************************************************************************)
(* The module body: its statements in program order.                       *)
(***************************************************************************)
\* the body with the notice issued twice
BodyWarnTwice ==
    << "import warnings", "warnings.warn", "warnings.warn", "IMPORT_NAME sdk",
       "IMPORT_STAR", "from sdk import", "RailScore =", "__all__ =" >>

\* the body with the wildcard re-export moved to its end
BodyWildcardLast ==
    << "import warnings", "warnings.warn", "from sdk import", "RailScore =",
       "__all__ =", "IMPORT_NAME sdk", "IMPORT_STAR" >>

\* the body with the notice issued once the successor has been imported
BodyWarnAfterImports ==
    << "import warnings", "IMPORT_NAME sdk", "IMPORT_STAR", "from sdk import",
       "warnings.warn", "RailScore =", "__all__ =" >>

Body ==
    << "import warnings",          \* line 23
       "warnings.warn",            \* lines 25-36
       "IMPORT_NAME sdk",          \* line 39, resolving and loading the successor
       "IMPORT_STAR",              \* line 39, binding its public symbols
       "from sdk import",          \* line 40
       "RailScore =",              \* line 43
       "__all__ =" >>              \* line 45

Stmt == IF pc = 0 THEN "none" ELSE Body[pc]

\* the body wrapped in "try: ... except Exception: pass"
HandlerSwallow(err) == "swallow"

\* The body has no try/except: an exception of any statement leaves the body.
Handler(err) == "propagate"

\* __name__ and __doc__ are set before the first statement runs.
FreshNs ==
    Bind(Bind(EmptyNs, "__name__", Obj(SHIM, "__name__")),
         "__doc__", ListObj(SHIM, "__doc__", DocString))

\* the call made under "with warnings.catch_warnings(): simplefilter('always')"
WarnDispositionAlways(action, reg, site) == "show"

\* warnings.warn(message, DeprecationWarning, stacklevel=2)
WarnDisposition(action, reg, site) ==
    CASE action = "error" -> "raise"
      [] action = "ignore" -> "drop"
      [] action = "always" -> "show"
      [] action = "default" -> IF site \in reg THEN "drop" ELSE "show"

Notice(site) == [category |-> NoticeCategory, text |-> NoticeText, site |-> site]

\* a fallback client bound when the successor cannot be imported
StubNs ==
    [n \in {"RailScoreClient", "__version__"} |-> Obj(SHIM, "fallback")]

ResolveSuccessorStub ==
    IF SDK \in sysModules
    THEN [err |-> "", mods |-> sysModules, sdk |-> sdkNs]
    ELSE IF sdkDisk.status = "ok"
         THEN [err |-> "", mods |-> sysModules \cup {SDK},
               sdk |-> SurfaceNs(sdkDisk.surface)]
         ELSE [err |-> "", mods |-> sysModules, sdk |-> StubNs]

\* import of rail_score_sdk: the cached module, or a load from the installation
ResolveSuccessor ==
    IF SDK \in sysModules
    THEN [err |-> "", mods |-> sysModules, sdk |-> sdkNs]
    ELSE CASE sdkDisk.status = "absent" ->
                [err |-> "ModuleNotFoundError", mods |-> sysModules, sdk |-> sdkNs]
           [] sdkDisk.status = "broken" ->
                [err |-> "SuccessorLoadError", mods |-> sysModules, sdk |-> sdkNs]
           [] sdkDisk.status = "ok" ->
                [err |-> "", mods |-> sysModules \cup {SDK},
                 sdk |-> SurfaceNs(sdkDisk.surface)]

IsPrivate(name) == name \in {"_helper", "__all__", "__version__", "__name__", "__doc__"}

ItemsOf(seq) == { seq[i] : i \in 1..Len(seq) }

\* a wildcard import that ignores the module's __all__
WildcardNamesPublicOnly(space) == { n \in DOMAIN space : ~IsPrivate(n) }

\* the names "from module import *" asks the module for
WildcardNames(space) ==
    IF "__all__" \in DOMAIN space
    THEN ItemsOf(space["__all__"].val)
    ELSE { n \in DOMAIN space : ~IsPrivate(n) }

\* "class RailScore(RailScoreClient): pass" in place of the alias
AliasTargetSubclass(space) == Obj(SHIM, "RailScore")

AliasTarget(space) == space["RailScoreClient"]

ExportListWithVersion == <<"RailScore", "RailScoreClient", "__version__">>

ExportList == <<"RailScore", "RailScoreClient">>

(***************************************************************************)
(* Leaving a statement.                                                    *)
(***************************************************************************)
\* the statement completed: on to the next one, or the module is loaded
Continue(effect) ==
    /\ log' = Append(log, effect)
    /\ IF pc = Len(Body)
       THEN pc' = 0 /\ importer' = "none" /\ history' = Append(history, "loaded")
       ELSE pc' = pc + 1 /\ UNCHANGED << importer, history >>

\* the statement raised err with the module cache at mods
Raise(err, mods, effect) ==
    /\ log' = Append(log, effect)
    /\ pc' = 0
    /\ importer' = "none"
    /\ IF Handler(err) = "propagate"
       THEN /\ sysModules' = mods \ {SHIM}
            /\ ns' = EmptyNs
            /\ history' = Append(history, err)
       ELSE /\ sysModules' = mods
            /\ UNCHANGED ns
            /\ history' = Append(history, "loaded")


(***************************************************************************)
(* The import statement in the host program.                               *)
(***************************************************************************)
\* "import rail_score" with the module in the cache: the body does not run
ImportCached ==
    /\ pc = 0
    /\ Len(history) < MaxImports
    /\ SHIM \in sysModules
    /\ history' = Append(history, "cached")
    /\ UNCHANGED << sdkDisk, sysModules, sdkNs, ns, pc, importer,
                    filterAction, registry, channel, issued, runs, log >>

\* "import rail_score" with the module not in the cache: a new module object
\* enters the cache and its body starts at the first statement
ImportFresh(site) ==
    /\ pc = 0
    /\ Len(history) < MaxImports
    /\ SHIM \notin sysModules
    /\ sysModules' = sysModules \cup {SHIM}
    /\ ns' = FreshNs
    /\ pc' = 1
    /\ importer' = site
    /\ runs' = runs + 1
    /\ log' = <<>>
    /\ UNCHANGED << sdkDisk, sdkNs, filterAction, registry, channel,
                    issued, history >>

(***************************************************************************)
(* The statements of the body.                                             *)
(***************************************************************************)
ExecImportWarnings ==
    /\ Stmt = "import warnings"
    /\ ns' = Bind(ns, "warnings", Obj("stdlib", "warnings"))
    /\ Continue("bind warnings")
    /\ UNCHANGED << sdkDisk, sysModules, sdkNs, filterAction,
                    registry, channel, issued, runs >>

ExecWarn ==
    /\ Stmt = "warnings.warn"
    /\ issued' = issued + 1
    /\ LET d == WarnDisposition(filterAction, registry, importer) IN
         CASE d = "raise" ->
                /\ Raise(NoticeCategory, sysModules, "notice")
                /\ UNCHANGED << registry, channel >>
           [] d = "drop" ->
                /\ Continue("notice")
                /\ UNCHANGED << sysModules, ns, registry, channel >>
           [] d = "show" ->
                /\ Continue("notice")
                /\ channel' = Append(channel, Notice(importer))
                /\ registry' = IF filterAction = "default"
                               THEN registry \cup {importer} ELSE registry
                /\ UNCHANGED << sysModules, ns >>
    /\ UNCHANGED << sdkDisk, sdkNs, filterAction, runs >>

ExecImportName ==
    /\ Stmt = "IMPORT_NAME sdk"
    /\ LET r == ResolveSuccessor IN
         IF r.err # ""
         THEN /\ Raise(r.err, r.mods, "resolve")
              /\ UNCHANGED sdkNs
         ELSE /\ sysModules' = r.mods
              /\ sdkNs' = r.sdk
              /\ Continue("resolve")
              /\ UNCHANGED ns
    /\ UNCHANGED << sdkDisk, filterAction, registry, channel,
                    issued, runs >>

ExecImportStar ==
    /\ Stmt = "IMPORT_STAR"
    /\ LET names == WildcardNames(sdkNs) IN
         IF names \subseteq DOMAIN sdkNs
         THEN /\ ns' = Overlay(ns, sdkNs, names)
              /\ Continue("wildcard")
              /\ UNCHANGED sysModules
         ELSE Raise("AttributeError", sysModules, "wildcard")
    /\ UNCHANGED << sdkDisk, sdkNs, filterAction, registry,
                    channel, issued, runs >>

ExecFromImport ==
    /\ Stmt = "from sdk import"
    /\ LET r == ResolveSuccessor IN
         IF r.err # ""
         THEN /\ Raise(r.err, r.mods, "from")
              /\ UNCHANGED sdkNs
         ELSE /\ sdkNs' = r.sdk
              /\ IF {"RailScoreClient", "__version__"} \subseteq DOMAIN r.sdk
                 THEN /\ ns' = Overlay(ns, r.sdk, {"RailScoreClient", "__version__"})
                      /\ sysModules' = r.mods
                      /\ Continue("from")
                 ELSE Raise("ImportError", r.mods, "from")
    /\ UNCHANGED << sdkDisk, filterAction, registry, channel,
                    issued, runs >>

ExecAlias ==
    /\ Stmt = "RailScore ="
    /\ IF "RailScoreClient" \in DOMAIN ns
       THEN /\ ns' = Bind(ns, "RailScore", AliasTarget(ns))
            /\ Continue("alias")
            /\ UNCHANGED sysModules
       ELSE Raise("NameError", sysModules, "alias")
    /\ UNCHANGED << sdkDisk, sdkNs, filterAction, registry,
                    channel, issued, runs >>

ExecAll ==
    /\ Stmt = "__all__ ="
    /\ ns' = Bind(ns, "__all__", ListObj(SHIM, "__all__", ExportList))
    /\ Continue("export")
    /\ UNCHANGED << sdkDisk, sysModules, sdkNs, filterAction,
                    registry, channel, issued, runs >>

(***************************************************************************)
(* The environment between import statements.                              *)
(***************************************************************************)
\* the successor distribution is installed, replaced or removed; a successor
\* module already in the cache is what later imports get, whatever is installed
InstallSuccessor(inst) ==
    /\ pc = 0
    /\ SDK \notin sysModules
    /\ inst # sdkDisk
    /\ sdkDisk' = inst
    /\ UNCHANGED << sysModules, sdkNs, ns, pc, importer, filterAction, registry,
                    channel, issued, runs, log, history >>

\* the host program changes the filter; the registries are invalidated with it
SetFilter(action) ==
    /\ pc = 0
    /\ action # filterAction
    /\ filterAction' = action
    /\ registry' = {}
    /\ UNCHANGED << sdkDisk, sysModules, sdkNs, ns, pc, importer,
                    channel, issued, runs, log, history >>

Init ==
    /\ sdkDisk \in Installations
    /\ sysModules = {}
    /\ sdkNs = EmptyNs
    /\ ns = EmptyNs
    /\ pc = 0
    /\ importer = "none"
    /\ filterAction \in Filters
    /\ registry = {}
    /\ channel = <<>>
    /\ issued = 0
    /\ runs = 0
    /\ log = <<>>
    /\ history = <<>>

Next ==
    \/ ImportCached
    \/ \E site \in Sites : ImportFresh(site)
    \/ ExecImportWarnings
    \/ ExecWarn
    \/ ExecImportName
    \/ ExecImportStar
    \/ ExecFromImport
    \/ ExecAlias
    \/ ExecAll
    \/ \E inst \in Installations : InstallSuccessor(inst)
    \/ \E action \in Filters : SetFilter(action)

Spec == Init /\ [][Next]_vars


(***************************************************************************)
(* Properties.                                                             *)
(***************************************************************************)
ShimLoaded == pc = 0 /\ SHIM \in sysModules

Last(seq) == seq[Len(seq)]

Count(seq, x) == Cardinality({ i \in 1..Len(seq) : seq[i] = x })

\* the successor's exported public symbols: the names of its __all__ when it
\* declares one, its names without a leading underscore otherwise
PublicSurface ==
    IF "__all__" \in DOMAIN sdkNs
    THEN { sdkNs["__all__"].val[i] : i \in 1..Len(sdkNs["__all__"].val) }
    ELSE DOMAIN sdkNs \ {"_helper", "__all__", "__version__", "__name__", "__doc__"}

\* C1: once the shim is loaded, whatever the successor's public surface, RailScore
\* and RailScoreClient in the shim's namespace are the identical object, the
\* successor's RailScoreClient, in every later state.
AliasIdentity ==
    ShimLoaded =>
        /\ {"RailScore", "RailScoreClient"} \subseteq DOMAIN ns
        /\ ns["RailScore"] = ns["RailScoreClient"]
        /\ ns["RailScore"] = sdkNs["RailScoreClient"]

\* the shim is loaded from a successor that itself exports a RailScore, and
\* has been imported again since
AliasIdentityWitness ==
    /\ ShimLoaded
    /\ "RailScore" \in PublicSurface
    /\ Last(history) = "cached"

\* C2: the execution of the body that loads the shim issues exactly one
\* deprecation notice, by its warnings.warn statement and by no other step (at
\* most one is delivered, exactly one under the "always" filter), the shim is
\* loaded at most once in a module cache, and an import that finds the shim in
\* the cache issues and delivers no notice and does not run the body.
IdempotentLoad ==
    /\ [](ShimLoaded => Count(log, "notice") = 1 /\ Count(history, "loaded") = 1)
    /\ [][IF Stmt = "warnings.warn"
          THEN /\ issued' = issued + 1
               /\ Len(channel') \in {Len(channel), Len(channel) + 1}
               /\ (filterAction = "always" => Len(channel') = Len(channel) + 1)
               /\ (Len(channel') > Len(channel) =>
                      Last(channel').category = "DeprecationWarning")
          ELSE issued' = issued /\ channel' = channel]_vars
    /\ [][(pc = 0 /\ SHIM \in sysModules /\ history' # history) =>
            /\ issued' = issued
            /\ channel' = channel
            /\ runs' = runs
            /\ pc' = 0
            /\ Last(history') = "cached"]_vars

\* loaded by the first import statement, one notice issued and delivered, then
\* imported again from the cache
IdempotentLoadWitness ==
    /\ ShimLoaded
    /\ Len(history) = 3
    /\ history[1] = "loaded"
    /\ Last(history) = "cached"
    /\ issued = 1
    /\ Len(channel) = 1

\* C3: while the successor is neither installed in loadable form nor in the
\* module cache, an execution of the body can only end with an error raised to
\* the importer and the shim out of the cache; and a loaded shim always has the
\* successor module loaded and both names bound to the successor's own client.
FailurePropagation ==
    /\ [](ShimLoaded =>
            /\ SDK \in sysModules
            /\ {"RailScore", "RailScoreClient"} \subseteq DOMAIN ns
            /\ ns["RailScore"] = Obj(SDK, "RailScoreClient")
            /\ ns["RailScoreClient"] = Obj(SDK, "RailScoreClient"))
    /\ [][(pc # 0 /\ SDK \notin sysModules /\ sdkDisk.status # "ok" /\ pc' = 0) =>
            /\ SHIM \notin sysModules'
            /\ Last(history') \in
                 {"ModuleNotFoundError", "SuccessorLoadError", "DeprecationWarning"}]_vars

\* two imports in a row failed on the absent successor
FailurePropagationWitness ==
    /\ pc = 0
    /\ sdkDisk.status = "absent"
    /\ Len(history) = 2
    /\ history[1] = "ModuleNotFoundError"
    /\ history[2] = "ModuleNotFoundError"
    /\ SHIM \notin sysModules

\* C4: once the shim is loaded its __all__ is the shim's own list and holds the
\* two names RailScore and RailScoreClient and nothing else.
ExportSetExact ==
    ShimLoaded =>
        /\ "__all__" \in DOMAIN ns
        /\ Len(ns["__all__"].val) = 2
        /\ { ns["__all__"].val[i] : i \in 1..Len(ns["__all__"].val) }
             = {"RailScore", "RailScoreClient"}

\* loaded from a successor whose wildcard export carries its own __all__, with
\* warnings and __version__ bound in the shim too
ExportSetExactWitness ==
    /\ ShimLoaded
    /\ "__all__" \in PublicSurface
    /\ {"RailScore", "warnings", "__version__"} \subseteq DOMAIN ns


UninstallCommand == <<"pip", "uninstall", "rail-score">>
InstallCommand == <<"pip", "install", "rail-score-sdk">>
OldImportStatement == <<"from", "rail_score", "import", "RailScore">>
NewImportStatement == <<"from", "rail_score_sdk", "import", "RailScoreClient">>
RepositoryLink == <<"https://github.com/RAILethicsHub/rail-score/tree/main/python">>
PackageIndexLink == <<"https://pypi.org/project/rail-score-sdk/">>

Delivered == { channel[i] : i \in 1..Len(channel) }

\* C5 as stated: every delivered notice contains the uninstall command, the
\* install command, the old and the new import statement and the documentation
\* links.
NoticeHasFivePieces ==
    \A n \in Delivered :
        /\ Contains(n.text, UninstallCommand)
        /\ Contains(n.text, InstallCommand)
        /\ Contains(n.text, OldImportStatement)
        /\ Contains(n.text, NewImportStatement)
        /\ Contains(n.text, RepositoryLink)
        /\ Contains(n.text, PackageIndexLink)

\* C5: every delivered notice is of the deprecation category and contains the
\* uninstall command, the install command, the new import statement and the
\* package-index documentation link; it contains neither the old import
\* statement nor the repository link, which the module docstring alone carries.
NoticeHasFourPieces ==
    /\ \A n \in Delivered :
          /\ n.category = "DeprecationWarning"
          /\ Contains(n.text, UninstallCommand)
          /\ Contains(n.text, InstallCommand)
          /\ Contains(n.text, NewImportStatement)
          /\ Contains(n.text, PackageIndexLink)
          /\ ~Contains(n.text, OldImportStatement)
          /\ ~Contains(n.text, RepositoryLink)
    /\ ShimLoaded =>
          /\ Contains(ns["__doc__"].val, OldImportStatement)
          /\ Contains(ns["__doc__"].val, RepositoryLink)

\* a notice has been delivered by the load that completed
NoticeDeliveredWitness ==
    /\ ShimLoaded
    /\ Len(channel) = 1
    /\ Last(history) = "loaded"

\* C6: between import statements the shim is either absent from the module
\* cache with no namespace left, which is how every failed load ends, or in
\* the cache fully initialised; and an import statement that does not find it
\* in the cache starts the body at its first statement on a fresh namespace.
AllOrNothing ==
    /\ [](pc = 0 =>
            IF SHIM \in sysModules
            THEN /\ history # <<>>
                 /\ Last(history) \in {"loaded", "cached"}
                 /\ {"RailScore", "RailScoreClient", "__version__", "__all__"}
                      \subseteq DOMAIN ns
                 /\ PublicSurface \subseteq DOMAIN ns
            ELSE /\ ns = EmptyNs
                 /\ history # <<>> => Last(history) \notin {"loaded", "cached"})
    /\ [][(pc = 0 /\ SHIM \notin sysModules /\ (history' # history \/ pc' # 0)) =>
            /\ pc' = 1
            /\ history' = history
            /\ ns' = FreshNs
            /\ log' = <<>>
            /\ runs' = runs + 1]_vars

\* a load failed after the successor had loaded and its symbols were bound,
\* the shim is gone from the cache, and the next import has started over
AllOrNothingWitness ==
    /\ pc = 1
    /\ history # <<>>
    /\ Last(history) = "ImportError"
    /\ SDK \in sysModules
    /\ ns = FreshNs
    /\ runs = 2


\* the successor module an import of rail_score_sdk would give, were it to load
SuccessorLoads == SDK \in sysModules \/ sdkDisk.status = "ok"

SuccessorNs == IF SDK \in sysModules THEN sdkNs ELSE SurfaceNs(sdkDisk.surface)

SuccessorAll ==
    IF "__all__" \in DOMAIN SuccessorNs
    THEN { SuccessorNs["__all__"].val[i] : i \in 1..Len(SuccessorNs["__all__"].val) }
    ELSE {}

\* the successor has every name the body asks it for
SuccessorComplete ==
    /\ SuccessorAll \subseteq DOMAIN SuccessorNs
    /\ {"RailScoreClient", "__version__"} \subseteq DOMAIN SuccessorNs

\* C7 as stated: an execution of the body that ends while the successor module
\* resolves and loads ends with the shim loaded (nothing but the successor
\* makes a load fail).
OnlySuccessorFailures ==
    [][(pc # 0 /\ pc' = 0 /\ SuccessorLoads) => Last(history') = "loaded"]_vars

\* C7: an execution of the body ends in an error exactly when the warnings
\* filter turns the notice into an exception, or the successor module is not
\* found or fails to load, or the loaded successor lacks a name the body asks
\* it for (a name of its __all__, RailScoreClient, __version__); each error is
\* raised by the statement of its cause, and neither the alias binding nor the
\* publication of the export list raises.
LoadFailureCauses ==
    [][(pc # 0 /\ pc' = 0) =>
        /\ Last(history') = "loaded" <=>
              (filterAction # "error" /\ SuccessorLoads /\ SuccessorComplete)
        /\ Last(history') = "DeprecationWarning" =>
              (Stmt = "warnings.warn" /\ filterAction = "error")
        /\ Last(history') \in {"ModuleNotFoundError", "SuccessorLoadError"} =>
              (Stmt = "IMPORT_NAME sdk" /\ ~SuccessorLoads)
        /\ Last(history') = "AttributeError" =>
              (Stmt = "IMPORT_STAR" /\ ~(SuccessorAll \subseteq DOMAIN sdkNs))
        /\ Last(history') = "ImportError" =>
              (Stmt = "from sdk import"
               /\ ~({"RailScoreClient", "__version__"} \subseteq DOMAIN sdkNs))
        /\ Last(history') \in
              {"loaded", "DeprecationWarning", "ModuleNotFoundError",
               "SuccessorLoadError", "AttributeError", "ImportError"}
        /\ Stmt # "RailScore ="
        /\ Stmt = "__all__ =" => Last(history') = "loaded"]_vars

\* the load failed on the notice although the successor is installed, loads
\* and is complete
LoadFailureCausesWitness ==
    /\ pc = 0
    /\ history # <<>>
    /\ Last(history) = "DeprecationWarning"
    /\ filterAction = "error"
    /\ SuccessorLoads
    /\ SuccessorComplete

FullLog ==
    <<"bind warnings", "notice", "resolve", "wildcard", "from", "alias", "export">>

\* C8: the side effects of an execution of the body happen in the order notice,
\* resolution of the successor, wildcard binding, binding of the alias,
\* publication of the export list, each at most once, so that in the loaded shim
\* RailScore and __all__ hold what the shim bound, not what the wildcard bound.
EffectOrder ==
    /\ Len(log) <= Len(FullLog)
    /\ \A i \in 1..Len(log) : log[i] = FullLog[i]
    /\ ShimLoaded =>
          /\ log = FullLog
          /\ ns["RailScore"] = sdkNs["RailScoreClient"]
          /\ ns["__all__"] = ListObj(SHIM, "__all__", <<"RailScore", "RailScoreClient">>)

\* a load has just completed from a successor whose wildcard export carries a
\* RailScore and an __all__ of its own
EffectOrderWitness ==
    /\ ShimLoaded
    /\ Last(history) = "loaded"
    /\ {"RailScore", "__all__"} \subseteq PublicSurface
    /\ sdkNs["RailScore"] # ns["RailScore"]

\* C9: in the loaded shim every exported public symbol of the successor other
\* than RailScore and __all__ is bound under its name to the successor's object.
WildcardComplete ==
    ShimLoaded =>
        \A n \in PublicSurface \ {"RailScore", "__all__"} :
            n \in DOMAIN ns /\ ns[n] = sdkNs[n]

\* loaded from a successor that declares an __all__ with a private name in it
WildcardCompleteWitness ==
    /\ ShimLoaded
    /\ PublicSurface = {"evaluate", "_helper"}
    /\ ns["_helper"] = Obj(SDK, "_helper")

\* C10: every execution of the body has issued the notice by the time the
\* successor is resolved, so a load that fails on the absent or unloadable
\* successor has issued it, and so has every retry.
EmissionUnconditional ==
    /\ Stmt \notin {"import warnings", "warnings.warn"} => issued = runs
    /\ (pc = 0 /\ history # <<>>
        /\ Last(history) \in {"ModuleNotFoundError", "SuccessorLoadError"}) =>
          log = <<"bind warnings", "notice", "resolve">>

\* a load failed on the absent successor, the successor was installed, and the
\* retry loaded the shim: two executions, two notices issued
EmissionUnconditionalWitness ==
    /\ ShimLoaded
    /\ Len(history) = 2
    /\ history[1] = "ModuleNotFoundError"
    /\ history[2] = "loaded"
    /\ issued = 2
    /\ runs = 2

====
